---- MODULE Spec2Model ----
(***************************************************************************)
(* A model of mtl_model_finetuning.ipynb: the row filter, the data split,  *)
(* the mean pooling of SentenceEncoder, and the driver main_function with  *)
(* train_func, evaluate and predict_sentences.                             *)
(*                                                                         *)
(* Five specifications share the variables of the module:                  *)
(*   SpecFilter  _is_real applied to one dataset row                       *)
(*   SpecSplit   prepare_loaders.split applied to one filtered dataset     *)
(*   SpecPool    SentenceEncoder.forward applied to one batch              *)
(*   Spec        main_function followed by a call of predict_sentences     *)
(*   SpecPass    one task's pass of one epoch in train_func, with the       *)
(*               values of its accumulators and of the row it logs          *)
(* Each specification leaves the variables of the others at their initial  *)
(* (idle) values.                                                          *)
(***************************************************************************)
EXTENDS Integers, Sequences, FiniteSets, TLC

\* ------------------------------------------------------------------------
\* Bounds of the model (not program constants)
\* ------------------------------------------------------------------------
\* longest text of a row given to _is_real
MaxTextLen == 2
\* largest integer label given to _is_real (labels range over -1..MaxLabel)
MaxLabel == 4
\* largest filtered dataset given to split (the smallest that splits is 6)
MaxSplitRows == 7
\* number of token positions of a row given to SentenceEncoder.forward
SeqLen == 2
\* rows of the AG News and SST-2 train splits that pass the filter
NAg == 40
NSst == 24
\* longest list of sentences given to predict_sentences
MaxSentences == 2
\* largest training set of a pass
MaxPassRows == 17

\* ------------------------------------------------------------------------
\* Program constants
\* ------------------------------------------------------------------------
BATCH_SIZE == 16
EPOCHS == 3
\* topic_names and sent_names of prepare_loaders
topic_names == <<"World", "Sports", "Business", "Sci/Tech">>
sent_names == <<"Negative", "Positive">>

VARIABLES
    \* SpecFilter: the row, the text key, and what _is_real returned
    example, text_key, kept,
    \* SpecSplit: the filtered dataset (a DatasetDict's "train" split) and
    \* the triple split returned
    split_ds, split_out,
    \* SpecPool: backbone output and attention mask of a batch, the weight
    \* of proj, the pooled embedding and what forward returns
    hidden, attention_mask, proj, emb, enc_out,
    \* Spec: the position in main_function / train_func / evaluate, and an
    \* exception that ended the run
    pc, error,
    \* what prepare_loaders returns: the six datasets behind the loaders,
    \* n_topic and n_sent
    loaders, n_topic, n_sent,
    \* the MultiTaskModel, the .grad of its three parameter groups, and
    \* whether Optimizer.zero_grad sets gradients to None (set_to_none)
    model, grads, set_to_none,
    \* train_func: optimizer and scheduler step counts, the scheduler's
    \* num_training_steps, MetricsPrinter.rows, the table print_epoch printed
    optim_steps, sched_steps, steps, rows, printed,
    \* the scheduler's num_warmup_steps
    num_warmup_steps,
    \* the stage and task of each pass evaluate has started (history)
    evals,
    \* the loops: epoch, index of the task, the order the loader iterates
    \* in, index of the batch, the stage of evaluate
    epoch, task_i, order, bidx, stage,
    \* one batch: the calls made for it so far, the last forward call,
    \* logits and loss
    ops, fwd, logits, loss,
    \* evaluate's preds and labels
    preds, labels,
    \* batches trained per task in the current epoch (history)
    done_in_epoch,
    \* predict_sentences: its argument and what it returned
    sentences, result,
    \* SpecPass: one task's pass of one epoch in train_func: the epoch, the
    \* task, the training set behind the loader, the order the loader
    \* iterates in, the model, the position in the pass, batches done
    pass_epoch, pass_task, pass_ds, pass_order, pass_model, pass_pc, pass_bidx,
    \* the accumulators tot_loss, preds and labels of train_func, and the
    \* rows mp.log appended
    tot_loss, train_preds, train_labels, logged,
    \* the model each batch of the pass was forwarded through (history)
    pass_used

fvars == <<example, text_key, kept>>
svars == <<split_ds, split_out>>
pvars == <<hidden, attention_mask, proj, emb, enc_out>>
prepvars == <<loaders, n_topic, n_sent>>
modelvars == <<model, grads>>
trainvars == <<optim_steps, sched_steps, steps, rows, printed, done_in_epoch>>
loopvars == <<epoch, task_i, order, bidx, stage>>
batchvars == <<ops, fwd, logits, loss>>
evalvars == <<preds, labels>>
predvars == <<sentences, result>>
mvars == <<pc, error, set_to_none, prepvars, modelvars, trainvars, loopvars,
           batchvars, evalvars, predvars, num_warmup_steps, evals>>
passvars == <<pass_epoch, pass_task, pass_ds, pass_order, pass_model, pass_pc,
              pass_bidx, tot_loss, train_preds, train_labels, logged, pass_used>>
vars == <<fvars, svars, pvars, mvars, passvars>>

\* ------------------------------------------------------------------------
\* Generic helpers
\* ------------------------------------------------------------------------
RECURSIVE SeqSum(_)
SeqSum(s) == IF s = <<>> THEN 0 ELSE Head(s) + SeqSum(Tail(s))

Range(s) == {s[i] : i \in 1..Len(s)}

\* all sequences over S of length at most n
SeqsUpTo(S, n) == UNION {[1..k -> S] : k \in 0..n}

\* the orderings of a finite set, as sequences
RECURSIVE Orderings(_)
Orderings(S) ==
    IF S = {} THEN {<<>>}
    ELSE UNION {{<<x>> \o p : p \in Orderings(S \ {x})} : x \in S}

\* the permutations of 1..n
Perms(n) == Orderings(1..n)

RECURSIVE Gcd(_, _)
Gcd(a, b) == IF b = 0 THEN a ELSE Gcd(b, a % b)

Abs(x) == IF x < 0 THEN -x ELSE x
Max(a, b) == IF a >= b THEN a ELSE b

\* a float quotient n / d, kept exact as a reduced fraction; 0 / 0 is nan
NaN == [num |-> 0, den |-> 0]
Rat(n, d) ==
    IF d = 0 THEN NaN
    ELSE LET g == Gcd(Abs(n), Abs(d))
             sgn == IF d < 0 THEN -1 ELSE 1
         IN  [num |-> sgn * (n \div g), den |-> sgn * (d \div g)]

\* ------------------------------------------------------------------------
\* Python values, as far as _is_real tells them apart
\* ------------------------------------------------------------------------
PyNone == [t |-> "none", s |-> <<>>, n |-> 0]
PyStr(chars) == [t |-> "str", s |-> chars, n |-> 0]
PyInt(i) == [t |-> "int", s |-> <<>>, n |-> i]
PyBool(b) == [t |-> "bool", s |-> <<>>, n |-> IF b THEN 1 ELSE 0]
PyFloat(i) == [t |-> "float", s |-> <<>>, n |-> i]

\* dict.get(key, None)
DictGet(d, key) == IF key \in DOMAIN d THEN d[key] ELSE PyNone

IsSpace(c) == c \in {" ", "\t", "\n"}

\* str.strip(): leading and trailing whitespace removed
RECURSIVE LStrip(_)
LStrip(s) == IF s # <<>> /\ IsSpace(Head(s)) THEN LStrip(Tail(s)) ELSE s

RECURSIVE RStrip(_)
RStrip(s) ==
    IF s # <<>> /\ IsSpace(s[Len(s)]) THEN RStrip(SubSeq(s, 1, Len(s) - 1)) ELSE s

Strip(s) == RStrip(LStrip(s))

\* isinstance(v, str); isinstance(v, (int, bool)): bool is a subclass of int
IsInstanceStr(v) == v.t = "str"
IsInstanceIntBool(v) == v.t \in {"int", "bool"}

\* _is_real(example, text_key)
IsReal(ex, key) ==
    LET txt == DictGet(ex, key)
        lbl == DictGet(ex, "label")
    IN  IF ~IsInstanceStr(txt) \/ Strip(txt.s) = <<>>
        THEN FALSE
        ELSE IsInstanceIntBool(lbl)

\* ------------------------------------------------------------------------
\* SpecFilter: _is_real on one row
\* ------------------------------------------------------------------------
Chars == {" ", "a"}
Texts == {PyNone, PyInt(7)} \cup {PyStr(s) : s \in SeqsUpTo(Chars, MaxTextLen)}
Labels ==
    {PyNone, PyStr(<<"a">>), PyFloat(1), PyBool(TRUE), PyBool(FALSE)}
        \cup {PyInt(i) : i \in -1..MaxLabel}

\* the rows of a dataset whose text column is key: a row may lack a column
Examples(key) ==
    {[k \in {key, "label"} |-> IF k = key THEN t ELSE l] : t \in Texts, l \in Labels}
        \cup {[k \in {key} |-> t] : t \in Texts}
        \cup {[k \in {"label"} |-> l] : l \in Labels}

PoolIdle == hidden = <<>> /\ attention_mask = <<>> /\ proj = 0 /\ emb = <<>> /\ enc_out = <<>>
SplitIdle == split_ds = <<>> /\ split_out = <<>>
FilterIdle == example = PyNone /\ text_key = "text" /\ kept = "idle"

\* the state of main_function before anything has run
NoHead == [n |-> 0, w |-> 0, b |-> 0]
NoModel ==
    [enc |-> 0, heads |-> [topic |-> NoHead, sentiment |-> NoHead],
     training |-> TRUE, topic_label_names |-> <<>>, sentiment_label_names |-> <<>>]
NoGrads == [encoder |-> "none", topic |-> "none", sentiment |-> "none"]
NoLoaders ==
    [train_topic |-> <<>>, val_topic |-> <<>>, test_topic |-> <<>>,
     train_sentiment |-> <<>>, val_sentiment |-> <<>>, test_sentiment |-> <<>>]
NoForward == [task |-> "", graph |-> {}]
NoResult == [error |-> "", records |-> <<>>, topic_logits |-> <<>>, sent_logits |-> <<>>]
MainStart ==
    /\ error = ""
    /\ loaders = NoLoaders /\ n_topic = 0 /\ n_sent = 0
    /\ model = NoModel /\ grads = NoGrads
    /\ optim_steps = 0 /\ sched_steps = 0 /\ steps = 0 /\ num_warmup_steps = 0
    /\ rows = <<>> /\ printed = <<>>
    /\ done_in_epoch = [topic |-> 0, sentiment |-> 0]
    /\ epoch = 0 /\ task_i = 0 /\ order = <<>> /\ bidx = 0 /\ stage = ""
    /\ ops = <<>> /\ fwd = NoForward /\ logits = <<>> /\ loss = NaN
    /\ preds = <<>> /\ labels = <<>>
    /\ sentences = <<>> /\ result = NoResult
    /\ evals = <<>>
MainIdle == pc = "idle" /\ set_to_none = TRUE /\ MainStart
PassIdle ==
    /\ pass_pc = "idle" /\ pass_epoch = 0 /\ pass_task = "" /\ pass_ds = <<>>
    /\ pass_order = <<>> /\ pass_model = NoModel /\ pass_bidx = 0
    /\ tot_loss = [num |-> 0, den |-> 1] /\ train_preds = <<>> /\ train_labels = <<>>
    /\ logged = <<>> /\ pass_used = <<>>

InitFilter ==
    /\ text_key \in {"text", "sentence"}
    /\ example \in Examples(text_key)
    /\ kept = "pending"
    /\ SplitIdle /\ PoolIdle /\ MainIdle /\ PassIdle

\* ds.filter(_is_real, fn_kwargs={"text_key": ...}) deciding one row
Filter ==
    /\ kept = "pending"
    /\ kept' = IF IsReal(example, text_key) THEN "True" ELSE "False"
    /\ UNCHANGED <<example, text_key, svars, pvars, mvars, passvars>>

SpecFilter == InitFilter /\ [][Filter]_vars

\* number of classes of the dataset whose text column is key
NumClassesOf(key) == IF key = "text" THEN Len(topic_names) ELSE Len(sent_names)

\* C2: _is_real keeps a row if and only if its text is a string that is
\* non-empty after stripping and its label is a valid class index of the
\* row's dataset (an integer in 0..classes-1).
C2_KeptIffTextAndValidLabel ==
    kept \in {"True", "False"} =>
        (kept = "True" <=>
            LET txt == DictGet(example, text_key)
                lbl == DictGet(example, "label")
            IN  /\ txt.t = "str"
                /\ \E i \in 1..Len(txt.s) : ~IsSpace(txt.s[i])
                /\ lbl.t \in {"int", "bool"}
                /\ lbl.n \in 0..(NumClassesOf(text_key) - 1))

\* ------------------------------------------------------------------------
\* SpecPool: SentenceEncoder.forward on one batch of two rows
\* ------------------------------------------------------------------------
\* values of out.last_hidden_state (one feature per position)
HiddenVals == {-1, 1, 2}

\* (hidden * mask): elementwise product of one row, mask broadcast
MulMask(h, m) == [i \in 1..Len(h) |-> h[i] * m[i]]

\* the pooling with the mutation "hidden is summed without the mask"
MeanPoolUnmasked(hid, mask) ==
    [r \in 1..Len(hid) |-> Rat(SeqSum(hid[r]), SeqSum(mask[r]))]

\* emb = (hidden * mask).sum(1) / mask.sum(1), row by row
MeanPool(hid, mask) ==
    [r \in 1..Len(hid) |-> Rat(SeqSum(MulMask(hid[r], mask[r])), SeqSum(mask[r]))]

\* self.proj: Linear (a weight w, no bias in the model) followed by ReLU
Proj(w, e) ==
    [r \in 1..Len(e) |->
        IF e[r] = NaN THEN NaN ELSE Rat(Max(0, w * e[r].num), e[r].den)]

InitPool ==
    /\ hidden \in [1..2 -> [1..SeqLen -> HiddenVals]]
    /\ attention_mask \in [1..2 -> [1..SeqLen -> {0, 1}]]
    /\ proj \in {-1, 1}
    /\ emb = <<>>
    /\ enc_out = <<>>
    /\ FilterIdle /\ SplitIdle /\ MainIdle /\ PassIdle

\* SentenceEncoder.forward(input_ids, attention_mask), from the backbone's
\* last_hidden_state on
EncoderForward ==
    /\ emb = <<>>
    /\ emb' = MeanPool(hidden, attention_mask)
    /\ enc_out' = Proj(proj, emb')
    /\ UNCHANGED <<hidden, attention_mask, proj, fvars, svars, mvars, passvars>>

SpecPool == InitPool /\ [][EncoderForward]_vars

\* the positions of row r that the mask keeps
Unmasked(r) == {i \in 1..SeqLen : attention_mask[r][i] = 1}

RECURSIVE SetSum(_, _)
SetSum(f, S) ==
    IF S = {} THEN 0
    ELSE LET x == CHOOSE x \in S : TRUE IN f[x] + SetSum(f, S \ {x})

\* C9: for every row with at least one unmasked token the pooled vector is
\* the sum of the hidden vectors at the unmasked positions divided by their
\* number, and the hidden vectors at masked positions do not change it.
C9_MaskedMean ==
    emb # <<>> =>
        \A r \in 1..Len(hidden) :
            Unmasked(r) # {} =>
                /\ emb[r] = Rat(SetSum(hidden[r], Unmasked(r)),
                                Cardinality(Unmasked(r)))
                /\ \A h2 \in [1..SeqLen -> HiddenVals] :
                       (\A i \in Unmasked(r) : h2[i] = hidden[r][i]) =>
                           MeanPool(<<h2>>, <<attention_mask[r]>>)[1] = emb[r]

\* a batch has been pooled in which one row has padding and the other none
C9_Witness ==
    /\ emb # <<>>
    /\ \E r \in 1..Len(hidden) :
           Unmasked(r) # {} /\ Unmasked(r) # 1..SeqLen
    /\ \E r \in 1..Len(hidden) : Unmasked(r) = 1..SeqLen

\* ------------------------------------------------------------------------
\* SpecSplit: prepare_loaders.split on one filtered dataset
\* ------------------------------------------------------------------------
\* ceil(num / den * n) for the fractions 0.2 = 1/5 and 0.5 = 1/2
CeilFrac(num, den, n) == (num * n + den - 1) \div den

\* a dataset is a sequence of rows [id, label]; Select is Dataset.select
Select(ds, idx) == [i \in 1..Len(idx) |-> ds[idx[i]]]

\* Dataset.train_test_split(test_size, seed=42): the rows are permuted (perm
\* is the permutation the seeded generator draws), the first n_test rows of
\* the permutation are the test set and the remaining n_train the train set;
\* an empty train set is a ValueError
TrainTestSplit(ds, num, den, perm) ==
    LET n_samples == Len(ds)
        n_test == CeilFrac(num, den, n_samples)
        n_train == n_samples - n_test
    IN  IF n_train = 0
        THEN [error |-> "ValueError", train |-> <<>>, test |-> <<>>]
        ELSE [error |-> "",
              train |-> Select(ds, SubSeq(perm, n_test + 1, n_test + n_train)),
              test |-> Select(ds, SubSeq(perm, 1, n_test))]

\* prepare_loaders.split(ds) with the mutation "vt splits tr['train']"
split_vt_of_train(ds, p1, p2) ==
    LET tr == TrainTestSplit(ds, 1, 5, p1)
        vt == IF tr.error # "" THEN tr
              ELSE TrainTestSplit(tr.train, 1, 2, SubSeq(p1, 1, Len(tr.train)))
    IN  IF vt.error # ""
        THEN [error |-> "ValueError", tr |-> <<>>, val |-> <<>>, test |-> <<>>]
        ELSE [error |-> "", tr |-> tr.train, val |-> vt.train, test |-> vt.test]

\* prepare_loaders.split(ds): p1 and p2 are the permutations of the two
\* train_test_split calls
split(ds, p1, p2) ==
    LET tr == TrainTestSplit(ds, 1, 5, p1)
        vt == IF tr.error # "" THEN tr ELSE TrainTestSplit(tr.test, 1, 2, p2)
    IN  IF vt.error # ""
        THEN [error |-> "ValueError", tr |-> <<>>, val |-> <<>>, test |-> <<>>]
        ELSE [error |-> "", tr |-> tr.train, val |-> vt.train, test |-> vt.test]

\* a filtered train split of n rows with the labels of classes classes
MakeDataset(n, classes) == [i \in 1..n |-> [id |-> i, label |-> (i - 1) % classes]]

InitSplit ==
    /\ \E n \in 1..MaxSplitRows, c \in {Len(topic_names), Len(sent_names)} :
           split_ds = MakeDataset(n, c)
    /\ split_out = <<>>
    /\ FilterIdle /\ PoolIdle /\ MainIdle /\ PassIdle

\* ag_tr, ag_val, ag_test = split(ag) for any outcome of the two shuffles
Split ==
    /\ split_out = <<>>
    /\ \E p1 \in Perms(Len(split_ds)) :
           \E p2 \in Perms(CeilFrac(1, 5, Len(split_ds))) :
               split_out' = <<split(split_ds, p1, p2)>>
    /\ UNCHANGED <<split_ds, fvars, pvars, mvars, passvars>>

SpecSplit == InitSplit /\ [][Split]_vars

Ids(ds) == {ds[i].id : i \in 1..Len(ds)}

\* C7: the train, validation and test sets split returns are pairwise
\* disjoint, without repeated rows, and their union is the filtered train
\* split: the test part takes ceil(0.2 n) rows, of which ceil(half) are the
\* test set and the others the validation set.
C7_SplitIsPartition ==
    (split_out # <<>> /\ split_out[1].error = "") =>
        LET o == split_out[1]
            n == Len(split_ds)
            n_hold == CeilFrac(1, 5, n)
        IN  /\ Ids(o.tr) \cap Ids(o.val) = {}
            /\ Ids(o.tr) \cap Ids(o.test) = {}
            /\ Ids(o.val) \cap Ids(o.test) = {}
            /\ Range(o.tr) \cup Range(o.val) \cup Range(o.test) = Range(split_ds)
            /\ Len(o.tr) + Len(o.val) + Len(o.test) = n
            /\ Len(o.test) = CeilFrac(1, 2, n_hold)
            /\ Len(o.val) = n_hold - Len(o.test)
            /\ Len(o.tr) = n - n_hold

\* a dataset has been split into three non-empty sets, two rows held out of
\* their original order
C7_Witness ==
    /\ split_out # <<>>
    /\ split_out[1].error = ""
    /\ Len(split_out[1].tr) >= 4
    /\ Len(split_out[1].val) >= 1
    /\ Len(split_out[1].test) >= 1
    /\ split_out[1].val[1].id > split_out[1].tr[1].id

\* ------------------------------------------------------------------------
\* Spec: main_function, then predict_sentences on the model it returned
\* ------------------------------------------------------------------------
Tasks == <<"topic", "sentiment">>
OtherTask(t) == IF t = "topic" THEN "sentiment" ELSE "topic"
NamesOf(t) == IF t = "topic" THEN topic_names ELSE sent_names

\* load_dataset: the train split holds n usable rows, whose labels run
\* through the classes, and two placeholder rows; the SST-2 test split
\* carries the label -1 on every row
RawTrain(key, n, classes) ==
    [i \in 1..n |-> [k \in {key, "label"} |->
        IF k = key THEN PyStr(<<"a">>) ELSE PyInt((i - 1) % classes)]]
    \o <<[k \in {key, "label"} |-> IF k = key THEN PyStr(<<" ">>) ELSE PyInt(0)],
         [k \in {key, "label"} |-> IF k = key THEN PyStr(<<"a">>) ELSE PyNone]>>
RawTest(key, lbl) ==
    <<[k \in {key, "label"} |-> IF k = key THEN PyStr(<<"a">>) ELSE PyInt(lbl)]>>
ag_news == [train |-> RawTrain("text", NAg, Len(topic_names)),
            test |-> RawTest("text", 0)]
glue_sst2 == [train |-> RawTrain("sentence", NSst, Len(sent_names)),
              test |-> RawTest("sentence", -1)]

\* Dataset.filter(_is_real, ...) and the rows as the later steps see them:
\* an id (the row's place in the filtered split) and the integer label
RECURSIVE FilterRows(_, _)
FilterRows(raw, key) ==
    IF raw = <<>> THEN <<>>
    ELSE IF IsReal(Head(raw), key)
         THEN <<Head(raw)>> \o FilterRows(Tail(raw), key)
         ELSE FilterRows(Tail(raw), key)
Rows(filtered) == [i \in 1..Len(filtered) |-> [id |-> i, label |-> filtered[i]["label"].n]]

\* the permutation the generator seeded with 42 draws for n rows: the
\* driver is run with one fixed permutation (SpecSplit covers them all)
Seed42Perm(n) == [i \in 1..n |-> i]

\* ds["labels"] of a dataset in torch format: one tensor object per row
TensorColumn(ds) == [i \in 1..Len(ds) |-> [obj |-> i, item |-> ds[i].label]]
\* len(set(column)): torch.Tensor hashes by identity, so two tensors of
\* equal value are two members
LenOfSet(column) == Cardinality(Range(column))

\* len(DataLoader(ds, BATCH_SIZE))
NumBatches(ds) == (Len(ds) + BATCH_SIZE - 1) \div BATCH_SIZE
\* the k-th batch of a loader that iterates ds in the order ord
BatchOf(ds, ord, k) ==
    LET lo == (k - 1) * BATCH_SIZE + 1
        hi == IF k * BATCH_SIZE < Len(ds) THEN k * BATCH_SIZE ELSE Len(ds)
    IN  Select(ds, SubSeq(ord, lo, hi))
\* the orders a shuffling loader may draw (two of them) and the order of a
\* loader that does not shuffle
Sequential(n) == [i \in 1..n |-> i]
ShuffleOrders(n) == {Sequential(n), [i \in 1..n |-> n + 1 - i]}

\* the classes a head's weight and its bias may single out: the first and
\* the last class that has a name, and the first that has none
WeightClasses(n, k) == {0, k} \cap (0..(n - 1))
BiasClasses(n, k) == {0, k - 1, k} \cap (0..(n - 1))
HeadsOf(task, n) ==
    {[n |-> n, w |-> w, b |-> b] :
        w \in WeightClasses(n, Len(NamesOf(task))),
        b \in BiasClasses(n, Len(NamesOf(task)))}

\* the pooled feature the backbone gives a dataset row
Feature(row) == row.id % 2
\* SentenceEncoder: the projection followed by ReLU, enc its weight
Encoder(enc, x) == Max(0, enc * x)
\* nn.Linear of a head: weight 1 on class w, bias 2 on class b
HeadLinear(h, e) ==
    [c \in 0..(h.n - 1) |->
        (IF c = h.w THEN e ELSE 0) + (IF c = h.b THEN 2 ELSE 0)]

\* MultiTaskModel.forward with the mutation "always the topic head"
ForwardTopicHead(m, task, xs) ==
    [logits |-> [i \in 1..Len(xs) |-> HeadLinear(m.heads["topic"], Encoder(m.enc, xs[i]))],
     graph |-> {"encoder", "topic"}]

\* MultiTaskModel.forward(input_ids, attention_mask, task) on the features
\* xs of a batch: the logits, and the parameter groups in their graph
Forward(m, task, xs) ==
    [logits |-> [i \in 1..Len(xs) |-> HeadLinear(m.heads[task], Encoder(m.enc, xs[i]))],
     graph |-> {"encoder", task}]

Features(batch) == [i \in 1..Len(batch) |-> Feature(batch[i])]
LabelsOf(batch) == [i \in 1..Len(batch) |-> batch[i].label]

\* tensor.argmax(-1) of one row of logits: the first index of the maximum
Argmax(v) ==
    CHOOSE c \in DOMAIN v :
        /\ \A d \in DOMAIN v : v[d] <= v[c]
        /\ \A d \in DOMAIN v : v[d] = v[c] => c <= d
ArgmaxRows(lg) == [i \in 1..Len(lg) |-> Argmax(lg[i])]

\* F.cross_entropy(logits, labels), by the margin of each row: what the
\* largest logit exceeds the label's logit by, summed over the batch
FnMax(v) == v[Argmax(v)]
CrossEntropy(lg, lbls) ==
    Rat(SeqSum([i \in 1..Len(lg) |-> FnMax(lg[i]) - lg[i][lbls[i]]]), Len(lg))

Init ==
    /\ pc = "start"
    /\ set_to_none \in BOOLEAN
    /\ MainStart
    /\ FilterIdle /\ SplitIdle /\ PoolIdle /\ PassIdle

\* prepare_loaders(): filter, split, tokenise, build the loaders, count the
\* classes
PrepareLoaders ==
    /\ pc = "start"
    /\ LET ag_train == Rows(FilterRows(ag_news["train"], "text"))
           sst_train == Rows(FilterRows(glue_sst2["train"], "sentence"))
           ag == split(ag_train, Seed42Perm(Len(ag_train)),
                       Seed42Perm(CeilFrac(1, 5, Len(ag_train))))
           sst == split(sst_train, Seed42Perm(Len(sst_train)),
                        Seed42Perm(CeilFrac(1, 5, Len(sst_train))))
       IN  IF ag.error # "" \/ sst.error # ""
           THEN /\ pc' = "raised"
                /\ error' = "ValueError"
                /\ UNCHANGED prepvars
           ELSE /\ pc' = "prepared"
                /\ error' = ""
                /\ loaders' = [train_topic |-> ag.tr, val_topic |-> ag.val,
                               test_topic |-> ag.test,
                               train_sentiment |-> sst.tr, val_sentiment |-> sst.val,
                               test_sentiment |-> sst.test]
                /\ n_topic' = LenOfSet(TensorColumn(ag.tr))
                /\ n_sent' = LenOfSet(TensorColumn(sst.tr))
    /\ UNCHANGED <<set_to_none, modelvars, trainvars, loopvars, batchvars,
                   evalvars, predvars, fvars, svars, pvars, passvars,
                   num_warmup_steps, evals>>

\* model = MultiTaskModel(n_topic, n_sent): the pretrained encoder and two
\* freshly initialised heads
MakeModel ==
    /\ pc = "prepared"
    /\ \E ht \in HeadsOf("topic", n_topic), hs \in HeadsOf("sentiment", n_sent) :
           model' = [enc |-> 1, heads |-> [topic |-> ht, sentiment |-> hs],
                     training |-> TRUE,
                     topic_label_names |-> <<>>, sentiment_label_names |-> <<>>]
    /\ pc' = "train_func"
    /\ UNCHANGED <<error, set_to_none, prepvars, grads, trainvars, loopvars,
                   batchvars, evalvars, predvars, fvars, svars, pvars, passvars,
                   num_warmup_steps, evals>>

\* int(0.1 * n) for n >= 0: the double 0.1 lies just above one tenth, so
\* the product is never rounded below a whole number it should reach, and
\* int() drops the fraction
IntOfTenth(n) == n \div 10

\* train_func up to its epoch loop, with the mutation "steps counts one
\* epoch"
TrainSetupOneEpoch ==
    /\ pc = "train_func"
    /\ steps' = NumBatches(loaders["train_topic"])
                 + NumBatches(loaders["train_sentiment"])
    /\ num_warmup_steps' = IntOfTenth(steps')
    /\ optim_steps' = 0
    /\ sched_steps' = 0
    /\ rows' = <<>>
    /\ epoch' = 0
    /\ pc' = "epoch_loop"
    /\ UNCHANGED <<error, set_to_none, prepvars, modelvars, printed, done_in_epoch,
                   task_i, order, bidx, stage, batchvars, evalvars, predvars,
                   fvars, svars, pvars, passvars, evals>>

\* train_func up to its epoch loop: optimizer, steps, scheduler, printer
TrainSetup ==
    /\ pc = "train_func"
    /\ steps' = EPOCHS * (NumBatches(loaders["train_topic"])
                          + NumBatches(loaders["train_sentiment"]))
    /\ num_warmup_steps' = IntOfTenth(steps')
    /\ optim_steps' = 0
    /\ sched_steps' = 0
    /\ rows' = <<>>
    /\ epoch' = 0
    /\ pc' = "epoch_loop"
    /\ UNCHANGED <<error, set_to_none, prepvars, modelvars, printed, done_in_epoch,
                   task_i, order, bidx, stage, batchvars, evalvars, predvars,
                   fvars, svars, pvars, passvars, evals>>

\* for epoch in range(EPOCHS): model.train(); when the range is exhausted
\* train_func returns and main_function calls evaluate(model, loaders, "val")
EpochLoop ==
    /\ pc = "epoch_loop"
    /\ IF epoch < EPOCHS
       THEN /\ model' = [model EXCEPT !.training = TRUE]
            /\ task_i' = 1
            /\ pc' = "task_loop"
            /\ UNCHANGED stage
       ELSE /\ pc' = "evaluate"
            /\ stage' = "val"
            /\ UNCHANGED <<model, task_i>>
    /\ UNCHANGED <<error, set_to_none, prepvars, grads, trainvars, epoch, order,
                   bidx, batchvars, evalvars, predvars, fvars, svars, pvars, passvars,
                   num_warmup_steps, evals>>

TrainDs(t) == loaders[IF t = "topic" THEN "train_topic" ELSE "train_sentiment"]

\* for task in ["topic", "sentiment"]: the loader starts a shuffled pass;
\* after the last task the epoch's table is printed
TaskLoop ==
    /\ pc = "task_loop"
    /\ IF task_i <= Len(Tasks)
       THEN /\ order' \in ShuffleOrders(Len(TrainDs(Tasks[task_i])))
            /\ bidx' = 0
            /\ pc' = "batch_loop"
       ELSE /\ pc' = "print_epoch"
            /\ UNCHANGED <<order, bidx>>
    /\ UNCHANGED <<error, set_to_none, prepvars, modelvars, trainvars, epoch,
                   task_i, stage, batchvars, evalvars, predvars, fvars, svars, pvars, passvars,
                   num_warmup_steps, evals>>

\* for batch in loader: the next batch, or the end of the task's pass
BatchLoop ==
    /\ pc = "batch_loop"
    /\ IF bidx < NumBatches(TrainDs(Tasks[task_i]))
       THEN /\ bidx' = bidx + 1
            /\ ops' = <<>>
            /\ pc' = "zero_grad"
       ELSE /\ pc' = "log"
            /\ UNCHANGED <<bidx, ops>>
    /\ UNCHANGED <<error, set_to_none, prepvars, modelvars, trainvars, epoch,
                   task_i, order, stage, fwd, logits, loss, evalvars, predvars,
                   fvars, svars, pvars, passvars,
                   num_warmup_steps, evals>>

CurTask == Tasks[task_i]
CurBatch == BatchOf(TrainDs(CurTask), order, bidx)

\* optim.zero_grad(): gradients become None, or zero where one exists
ZeroGrad ==
    /\ pc = "zero_grad"
    /\ grads' = [g \in DOMAIN grads |->
                    IF set_to_none \/ grads[g] = "none" THEN "none" ELSE "zero"]
    /\ ops' = Append(ops, "zero_grad")
    /\ pc' = "forward"
    /\ UNCHANGED <<error, set_to_none, prepvars, model, trainvars, loopvars,
                   fwd, logits, loss, evalvars, predvars, fvars, svars, pvars, passvars,
                   num_warmup_steps, evals>>

\* logits = model(batch["input_ids"], batch["attention_mask"], task)
ForwardStep ==
    /\ pc = "forward"
    /\ LET out == Forward(model, CurTask, Features(CurBatch))
       IN  /\ logits' = out.logits
           /\ fwd' = [task |-> CurTask, graph |-> out.graph]
    /\ ops' = Append(ops, "forward")
    /\ pc' = "cross_entropy"
    /\ UNCHANGED <<error, set_to_none, prepvars, modelvars, trainvars, loopvars,
                   loss, evalvars, predvars, fvars, svars, pvars, passvars,
                   num_warmup_steps, evals>>

\* loss = F.cross_entropy(logits, batch["labels"])
LossStep ==
    /\ pc = "cross_entropy"
    /\ loss' = CrossEntropy(logits, LabelsOf(CurBatch))
    /\ ops' = Append(ops, "cross_entropy")
    /\ pc' = "backward"
    /\ UNCHANGED <<error, set_to_none, prepvars, modelvars, trainvars, loopvars,
                   fwd, logits, evalvars, predvars, fvars, svars, pvars, passvars,
                   num_warmup_steps, evals>>

\* loss.backward(): every parameter group in the graph of the loss gets a
\* gradient
BackwardStep ==
    /\ pc = "backward"
    /\ grads' = [g \in DOMAIN grads |-> IF g \in fwd.graph THEN "set" ELSE grads[g]]
    /\ ops' = Append(ops, "backward")
    /\ pc' = "optim.step"
    /\ UNCHANGED <<error, set_to_none, prepvars, model, trainvars, loopvars,
                   fwd, logits, loss, evalvars, predvars, fvars, svars, pvars, passvars,
                   num_warmup_steps, evals>>

\* optim.step(): AdamW moves every parameter group whose gradient is not
\* None (a zero gradient still moves it, by the moment estimates); where
\* it moves to is left open
OptimStep ==
    /\ pc = "optim.step"
    /\ \E e \in {0, 1}, ht \in HeadsOf("topic", n_topic),
          hs \in HeadsOf("sentiment", n_sent) :
           /\ grads["encoder"] = "none" => e = model.enc
           /\ grads["topic"] = "none" => ht = model.heads["topic"]
           /\ grads["sentiment"] = "none" => hs = model.heads["sentiment"]
           /\ model' = [model EXCEPT !.enc = e,
                                     !.heads = [topic |-> ht, sentiment |-> hs]]
    /\ optim_steps' = optim_steps + 1
    /\ ops' = Append(ops, "optim.step")
    /\ pc' = "sched.step"
    /\ UNCHANGED <<error, set_to_none, prepvars, grads, sched_steps, steps, rows,
                   printed, done_in_epoch, loopvars, fwd, logits, loss, evalvars,
                   predvars, fvars, svars, pvars, passvars,
                   num_warmup_steps, evals>>

\* the loop body with the mutation "the scheduler is not stepped per batch"
SchedStepSkipped ==
    /\ pc = "sched.step"
    /\ pc' = "accumulate"
    /\ UNCHANGED <<error, set_to_none, prepvars, modelvars, trainvars, loopvars,
                   batchvars, evalvars, predvars, fvars, svars, pvars, passvars,
                   num_warmup_steps, evals>>

\* sched.step()
SchedStep ==
    /\ pc = "sched.step"
    /\ sched_steps' = sched_steps + 1
    /\ ops' = Append(ops, "sched.step")
    /\ pc' = "accumulate"
    /\ UNCHANGED <<error, set_to_none, prepvars, modelvars, optim_steps, steps,
                   rows, printed, done_in_epoch, loopvars, fwd, logits, loss,
                   evalvars, predvars, fvars, svars, pvars, passvars,
                   num_warmup_steps, evals>>

\* the end of the loop body: tot_loss, preds and labels take the batch in
\* (their values are not kept here), and the batch with its logits and
\* loss is done
Accumulate ==
    /\ pc = "accumulate"
    /\ done_in_epoch' = [done_in_epoch EXCEPT ![CurTask] = @ + 1]
    /\ fwd' = NoForward
    /\ logits' = <<>>
    /\ loss' = NaN
    /\ pc' = "batch_loop"
    /\ UNCHANGED <<error, set_to_none, prepvars, modelvars, optim_steps,
                   sched_steps, steps, rows, printed, loopvars, ops,
                   evalvars, predvars, fvars, svars, pvars, passvars,
                   num_warmup_steps, evals>>

\* mp.log with the mutation "the row always names the first task"
LogMetricsFirstTask ==
    /\ pc = "log"
    /\ rows' = Append(rows, [epoch |-> epoch, task |-> Tasks[1]])
    /\ task_i' = task_i + 1
    /\ pc' = "task_loop"
    /\ UNCHANGED <<error, set_to_none, prepvars, modelvars, optim_steps,
                   sched_steps, steps, printed, done_in_epoch, epoch, order, bidx,
                   stage, batchvars, evalvars, predvars, fvars, svars, pvars, passvars,
                   num_warmup_steps, evals>>

\* mp.log(epoch, task, ...): one row appended (its loss and metrics columns
\* are not kept here)
LogMetrics ==
    /\ pc = "log"
    /\ rows' = Append(rows, [epoch |-> epoch, task |-> CurTask])
    /\ task_i' = task_i + 1
    /\ pc' = "task_loop"
    /\ UNCHANGED <<error, set_to_none, prepvars, modelvars, optim_steps,
                   sched_steps, steps, printed, done_in_epoch, epoch, order, bidx,
                   stage, batchvars, evalvars, predvars, fvars, svars, pvars, passvars,
                   num_warmup_steps, evals>>

\* the rows of one epoch: [r for r in self.rows if r["epoch"] == epoch]
RECURSIVE RowsOfEpoch(_, _)
RowsOfEpoch(rs, e) ==
    IF rs = <<>> THEN <<>>
    ELSE IF Head(rs).epoch = e
         THEN <<Head(rs)>> \o RowsOfEpoch(Tail(rs), e)
         ELSE RowsOfEpoch(Tail(rs), e)

\* mp.print_epoch(epoch), then the next epoch (whose batch counts start
\* at zero)
PrintEpoch ==
    /\ pc = "print_epoch"
    /\ printed' = RowsOfEpoch(rows, epoch)
    /\ epoch' = epoch + 1
    /\ done_in_epoch' = [topic |-> 0, sentiment |-> 0]
    /\ pc' = "epoch_loop"
    /\ UNCHANGED <<error, set_to_none, prepvars, modelvars, optim_steps,
                   sched_steps, steps, rows, task_i, order, bidx,
                   stage, batchvars, evalvars, predvars, fvars, svars, pvars, passvars,
                   num_warmup_steps, evals>>

\* loaders[f"{stage}_{task}"]
EvalDs(st, t) ==
    loaders[IF st = "val"
            THEN (IF t = "topic" THEN "val_topic" ELSE "val_sentiment")
            ELSE (IF t = "topic" THEN "test_topic" ELSE "test_sentiment")]

\* evaluate with the mutation "model.eval() is not called"
EvalBeginTrainMode ==
    /\ pc = "evaluate"
    /\ model' = model
    /\ task_i' = 1
    /\ pc' = "eval_task"
    /\ UNCHANGED <<error, set_to_none, prepvars, grads, trainvars, epoch, order,
                   bidx, stage, batchvars, evalvars, predvars, fvars, svars, pvars, passvars,
                   num_warmup_steps, evals>>

\* evaluate(model, loaders, stage, ...): model.eval() and the header line
EvalBegin ==
    /\ pc = "evaluate"
    /\ model' = [model EXCEPT !.training = FALSE]
    /\ task_i' = 1
    /\ pc' = "eval_task"
    /\ UNCHANGED <<error, set_to_none, prepvars, grads, trainvars, epoch, order,
                   bidx, stage, batchvars, evalvars, predvars, fvars, svars, pvars, passvars,
                   num_warmup_steps, evals>>

\* for task, names in [...]: preds, labels = [], []; after the last task
\* evaluate returns, and main_function goes on to the "test" stage or to
\* storing the label names
EvalTaskLoop ==
    /\ pc = "eval_task"
    /\ IF task_i <= Len(Tasks)
       THEN /\ preds' = <<>>
            /\ labels' = <<>>
            /\ bidx' = 0
            /\ evals' = Append(evals, <<stage, CurTask>>)
            /\ pc' = "eval_batch"
            /\ UNCHANGED stage
       ELSE /\ IF stage = "val"
               THEN stage' = "test" /\ pc' = "evaluate"
               ELSE stage' = stage /\ pc' = "store_names"
            /\ UNCHANGED <<preds, labels, bidx, evals>>
    /\ UNCHANGED <<error, set_to_none, prepvars, modelvars, trainvars, epoch,
                   task_i, order, batchvars, predvars, fvars, svars, pvars, passvars,
                   num_warmup_steps>>

\* with torch.no_grad(): for batch in loader: forward, argmax, accumulate
EvalBatch ==
    /\ pc = "eval_batch"
    /\ IF bidx < NumBatches(EvalDs(stage, CurTask))
       THEN LET ds == EvalDs(stage, CurTask)
                batch == BatchOf(ds, Sequential(Len(ds)), bidx + 1)
                out == Forward(model, CurTask, Features(batch))
            IN  /\ bidx' = bidx + 1
                /\ logits' = out.logits
                /\ fwd' = [task |-> CurTask, graph |-> {}]
                /\ preds' = preds \o ArgmaxRows(out.logits)
                /\ labels' = labels \o LabelsOf(batch)
                /\ pc' = "eval_batch"
       ELSE /\ pc' = "report"
            /\ UNCHANGED <<bidx, logits, fwd, preds, labels>>
    /\ UNCHANGED <<error, set_to_none, prepvars, modelvars, trainvars, epoch,
                   task_i, order, stage, ops, loss, predvars, fvars, svars, pvars, passvars,
                   num_warmup_steps, evals>>

\* macro_metrics and classification_report(labels, preds, target_names=names):
\* the report raises ValueError unless the classes occurring in labels and
\* preds are as many as the names
EvalReport ==
    /\ pc = "report"
    /\ IF Cardinality(Range(labels) \cup Range(preds)) # Len(NamesOf(CurTask))
       THEN /\ pc' = "raised"
            /\ error' = "ValueError"
            /\ UNCHANGED task_i
       ELSE /\ pc' = "eval_task"
            /\ task_i' = task_i + 1
            /\ UNCHANGED error
    /\ UNCHANGED <<set_to_none, prepvars, modelvars, trainvars, epoch, order, bidx,
                   stage, batchvars, evalvars, predvars, fvars, svars, pvars, passvars,
                   num_warmup_steps, evals>>

\* model.topic_label_names = t_names; model.sentiment_label_names = s_names;
\* return model
StoreNames ==
    /\ pc = "store_names"
    /\ model' = [model EXCEPT !.topic_label_names = topic_names,
                              !.sentiment_label_names = sent_names]
    /\ pc' = "returned"
    /\ UNCHANGED <<error, set_to_none, prepvars, grads, trainvars, loopvars,
                   batchvars, evalvars, predvars, fvars, svars, pvars, passvars,
                   num_warmup_steps, evals>>

\* sentences a caller may pass, each with the pooled feature the backbone
\* gives it
CustomSentences == {[text |-> "s1", x |-> 1], [text |-> "s2", x |-> 3]}
SentenceLists == UNION {[1..k -> CustomSentences] : k \in 1..MaxSentences}

\* names[i] of a Python list, i >= 0
ListGet(names, i) == IF i < Len(names) THEN names[i + 1] ELSE "IndexError"

\* predict_sentences(model, sentences)
PredictSentences ==
    /\ pc = "returned"
    /\ \E ss \in SentenceLists :
        LET xs == [i \in 1..Len(ss) |-> ss[i].x]
            topic_logits == Forward(model, "topic", xs).logits
            sent_logits == Forward(model, "sentiment", xs).logits
            topic_ids == ArgmaxRows(topic_logits)
            sent_ids == ArgmaxRows(sent_logits)
            recs == [i \in 1..Len(ss) |->
                       [sentence |-> ss[i],
                        topic |-> ListGet(model.topic_label_names, topic_ids[i]),
                        sentiment |-> ListGet(model.sentiment_label_names, sent_ids[i])]]
            bad == \E i \in 1..Len(ss) :
                       recs[i].topic = "IndexError" \/ recs[i].sentiment = "IndexError"
        IN  /\ sentences' = ss
            /\ result' = [error |-> IF bad THEN "IndexError" ELSE "",
                          records |-> IF bad THEN <<>> ELSE recs,
                          topic_logits |-> topic_logits,
                          sent_logits |-> sent_logits]
    /\ model' = [model EXCEPT !.training = FALSE]
    /\ UNCHANGED <<pc, error, set_to_none, prepvars, grads, trainvars, loopvars,
                   batchvars, evalvars, fvars, svars, pvars, passvars,
                   num_warmup_steps, evals>>

Next ==
    \/ PrepareLoaders
    \/ MakeModel
    \/ TrainSetup
    \/ EpochLoop
    \/ TaskLoop
    \/ BatchLoop
    \/ ZeroGrad
    \/ ForwardStep
    \/ LossStep
    \/ BackwardStep
    \/ OptimStep
    \/ SchedStep
    \/ Accumulate
    \/ LogMetrics
    \/ PrintEpoch
    \/ EvalBegin
    \/ EvalTaskLoop
    \/ EvalBatch
    \/ EvalReport
    \/ StoreNames
    \/ PredictSentences

Spec == Init /\ [][Next]_vars

\* ------------------------------------------------------------------------
\* Properties of Spec
\* ------------------------------------------------------------------------
TrainPcs == {"task_loop", "batch_loop", "zero_grad", "forward", "cross_entropy",
             "backward", "optim.step", "sched.step", "accumulate", "log",
             "print_epoch"}
BatchPcs == {"zero_grad", "forward", "cross_entropy", "backward", "optim.step",
             "sched.step", "accumulate"}
AfterTrainPcs == {"evaluate", "eval_task", "eval_batch", "report", "store_names",
                  "returned"}
Prepared == pc \notin {"idle", "start", "raised"} \/ (pc = "raised" /\ n_topic > 0)

\* C1: within an epoch the batches of the two tasks are interleaved: when a
\* task has run all of its batches of the epoch, the other task has run at
\* least one batch of the epoch or is running one.
C1_BatchesInterleaved ==
    pc \in TrainPcs =>
        \A t \in Range(Tasks) :
            done_in_epoch[t] = NumBatches(TrainDs(t)) =>
                \/ done_in_epoch[OtherTask(t)] >= 1
                \/ (pc \in BatchPcs /\ CurTask = OtherTask(t))

LabelValues(ds) == {ds[i].label : i \in 1..Len(ds)}

\* C3: n_topic and n_sent are the numbers of distinct label values of the
\* two training sets, and so the lengths of the label-name lists when every
\* class occurs in the training set.
C3_ClassCountsAreDistinctLabels ==
    Prepared =>
        /\ n_topic = Cardinality(LabelValues(loaders["train_topic"]))
        /\ n_sent = Cardinality(LabelValues(loaders["train_sentiment"]))
        /\ LabelValues(loaders["train_topic"]) = 0..(Len(topic_names) - 1)
               => n_topic = Len(topic_names)
        /\ LabelValues(loaders["train_sentiment"]) = 0..(Len(sent_names) - 1)
               => n_sent = Len(sent_names)

\* C4: predict_sentences returns one record per sentence, in order, each
\* with its sentence and the names at the argmax of the two heads' logits.
C4_OneRecordPerSentence ==
    sentences # <<>> =>
        /\ result.error = ""
        /\ Len(result.records) = Len(sentences)
        /\ \A i \in 1..Len(sentences) :
               /\ result.records[i].sentence = sentences[i]
               /\ result.records[i].topic =
                      model.topic_label_names[Argmax(result.topic_logits[i]) + 1]
               /\ result.records[i].sentiment =
                      model.sentiment_label_names[Argmax(result.sent_logits[i]) + 1]

\* C5: every argmax of a head's logits is an index into the names of the
\* head's task, so neither predict_sentences nor the report of evaluate
\* fails on a class without a name.
C5_ClassIndexHasName ==
    /\ fwd.task # "" =>
           \A i \in 1..Len(logits) : Argmax(logits[i]) < Len(NamesOf(fwd.task))
    /\ \A i \in 1..Len(result.topic_logits) :
           Argmax(result.topic_logits[i]) < Len(topic_names)
    /\ \A i \in 1..Len(result.sent_logits) :
           Argmax(result.sent_logits[i]) < Len(sent_names)
    /\ result.error = ""
    /\ error = ""

CountRows(rs, e, t) == Cardinality({i \in 1..Len(rs) : rs[i] = [epoch |-> e, task |-> t]})

\* C6: when print_epoch(e) is called, and in the table it prints, there is
\* exactly one row for (e, topic) and one for (e, sentiment); no (epoch,
\* task) pair is logged twice; after train_func has returned there are
\* 2 * EPOCHS rows, one per pair.
C6_OneRowPerEpochAndTask ==
    /\ \A i, j \in 1..Len(rows) : rows[i] = rows[j] => i = j
    /\ pc = "print_epoch" =>
           \A t \in Range(Tasks) : CountRows(rows, epoch, t) = 1
    /\ (pc = "epoch_loop" /\ epoch >= 1) =>
           /\ Len(printed) = 2
           /\ \A t \in Range(Tasks) : CountRows(printed, epoch - 1, t) = 1
    /\ pc \in AfterTrainPcs =>
           /\ Len(rows) = 2 * EPOCHS
           /\ \A e \in 0..(EPOCHS - 1), t \in Range(Tasks) : CountRows(rows, e, t) = 1

\* the last epoch's table has been printed and train_func has returned
C6_Witness ==
    /\ pc = "evaluate"
    /\ stage = "val"
    /\ Len(rows) = 2 * EPOCHS
    /\ printed = <<[epoch |-> EPOCHS - 1, task |-> "topic"],
                   [epoch |-> EPOCHS - 1, task |-> "sentiment"]>>

\* the model with the head of task t replaced by h
WithHead(m, t, h) == [m EXCEPT !.heads[t] = h]
HeadSize(t) == IF t = "topic" THEN n_topic ELSE n_sent
EvalBatchNow ==
    BatchOf(EvalDs(stage, CurTask), Sequential(Len(EvalDs(stage, CurTask))), bidx)

\* C8: the logits of a forward pass for task T, in train_func, evaluate and
\* predict_sentences, and the loss of a training step, are the same
\* whatever the other task's head holds; the graph of a training forward
\* pass is the shared encoder and head T, and the backward pass gives
\* exactly these a gradient of the step.
C8_SharedEncoderOwnHead ==
    /\ pc = "cross_entropy" =>
           /\ fwd.graph = {"encoder", CurTask}
           /\ \A h \in HeadsOf(OtherTask(CurTask), HeadSize(OtherTask(CurTask))) :
                  Forward(WithHead(model, OtherTask(CurTask), h), CurTask,
                          Features(CurBatch)).logits = logits
    /\ pc = "backward" =>
           \A h \in HeadsOf(OtherTask(CurTask), HeadSize(OtherTask(CurTask))) :
               CrossEntropy(Forward(WithHead(model, OtherTask(CurTask), h), CurTask,
                                    Features(CurBatch)).logits,
                            LabelsOf(CurBatch)) = loss
    /\ pc = "optim.step" =>
           /\ grads["encoder"] = "set"
           /\ grads[CurTask] = "set"
           /\ grads[OtherTask(CurTask)] # "set"
    /\ (pc = "eval_batch" /\ bidx >= 1) =>
           \A h \in HeadsOf(OtherTask(CurTask), HeadSize(OtherTask(CurTask))) :
               Forward(WithHead(model, OtherTask(CurTask), h), CurTask,
                       Features(EvalBatchNow)).logits = logits
    /\ sentences # <<>> =>
           LET xs == [i \in 1..Len(sentences) |-> sentences[i].x]
           IN  /\ \A h \in HeadsOf("sentiment", n_sent) :
                      Forward(WithHead(model, "sentiment", h), "topic", xs).logits
                          = result.topic_logits
               /\ \A h \in HeadsOf("topic", n_topic) :
                      Forward(WithHead(model, "topic", h), "sentiment", xs).logits
                          = result.sent_logits

\* a sentiment batch has been back-propagated while the topic head holds
\* something else than the sentiment head
C8_Witness ==
    /\ pc = "optim.step"
    /\ CurTask = "sentiment"
    /\ grads["sentiment"] = "set"
    /\ model.heads["topic"].b # model.heads["sentiment"].b
    /\ loss.num > 0

BatchCalls == <<"zero_grad", "forward", "cross_entropy", "backward",
                "optim.step", "sched.step">>
BatchesDone ==
    epoch * (NumBatches(loaders["train_topic"]) + NumBatches(loaders["train_sentiment"]))
        + done_in_epoch["topic"] + done_in_epoch["sentiment"]

\* C10: the calls made for a batch are, in this order, zero_grad, forward,
\* cross_entropy, backward, optim.step, sched.step; a finished batch has
\* made each exactly once; the optimizer and the scheduler have stepped
\* once per finished batch, and once more only inside the batch under way.
C10_StepOrderPerBatch ==
    /\ Len(ops) <= Len(BatchCalls)
    /\ ops = SubSeq(BatchCalls, 1, Len(ops))
    /\ pc = "accumulate" => ops = BatchCalls
    /\ (pc = "batch_loop" /\ bidx >= 1) => ops = BatchCalls
    /\ Prepared =>
           /\ optim_steps = BatchesDone + (IF pc \in {"sched.step", "accumulate"} THEN 1 ELSE 0)
           /\ sched_steps = BatchesDone + (IF pc = "accumulate" THEN 1 ELSE 0)
    /\ pc \in AfterTrainPcs => optim_steps = steps /\ sched_steps = steps

\* the second batch of a pass has just finished
C10_Witness ==
    /\ pc = "batch_loop"
    /\ bidx = 2
    /\ ops = BatchCalls
    /\ optim_steps >= 2
    /\ sched_steps = optim_steps

\* C12: the scheduler is given EPOCHS times the number of training batches
\* of the two tasks as num_training_steps; it is never stepped more often
\* than that, and when train_func has returned it has been stepped exactly
\* that often; num_warmup_steps is the floor of a tenth of that number and
\* does not exceed it.
C12_SchedulerStepsAreTrainingSteps ==
    /\ sched_steps <= steps
    /\ pc \in {"epoch_loop"} \cup TrainPcs \cup AfterTrainPcs =>
           /\ steps = EPOCHS * (NumBatches(loaders["train_topic"])
                                + NumBatches(loaders["train_sentiment"]))
           /\ 10 * num_warmup_steps <= steps
           /\ steps < 10 * (num_warmup_steps + 1)
           /\ num_warmup_steps <= steps
    /\ (pc \in AfterTrainPcs \/ (pc = "raised" /\ stage # "")) => sched_steps = steps

\* train_func has returned after more than ten steps, a number that is
\* not a multiple of ten
C12_Witness ==
    /\ pc = "evaluate"
    /\ stage = "val"
    /\ sched_steps = steps
    /\ steps > 10
    /\ steps % 10 # 0
    /\ num_warmup_steps >= 1

\* the passes of evaluate in the order main_function makes them
EvalOrder == <<<<"val", "topic">>, <<"val", "sentiment">>,
               <<"test", "topic">>, <<"test", "sentiment">>>>

C13_State ==
    /\ Len(evals) <= Len(EvalOrder)
    /\ evals = SubSeq(EvalOrder, 1, Len(evals))
    /\ (stage # "" \/ evals # <<>> \/ sentences # <<>>) =>
           /\ epoch = EPOCHS
           /\ Len(rows) = EPOCHS * Len(Tasks)
           /\ optim_steps = steps
    /\ pc \in {"eval_task", "eval_batch", "report"} => model.training = FALSE
    /\ sentences # <<>> => model.training = FALSE
    /\ pc \in BatchPcs => model.training = TRUE

C13_Step ==
    /\ pc \in AfterTrainPcs =>
           /\ optim_steps' = optim_steps
           /\ sched_steps' = sched_steps
           /\ model'.enc = model.enc
           /\ model'.heads = model.heads
    /\ optim_steps' # optim_steps => (pc = "optim.step" /\ model.training = TRUE)
    /\ evals' # evals => model.training = FALSE

\* C13: every training epoch is complete before an evaluation starts; the
\* evaluation passes come in the order validation topic, validation
\* sentiment, test topic, test sentiment; evaluate and predict_sentences
\* run with the model in eval mode, make no optimizer or scheduler step and
\* leave the encoder and the heads as they are; every optimizer step is
\* made with the model in train mode.
C13_TrainThenEvaluate == []C13_State /\ [][C13_Step]_vars

\* main_function has made its four evaluation passes and returned, and
\* predict_sentences has run on the model
C13_Witness ==
    /\ pc = "returned"
    /\ evals = EvalOrder
    /\ sentences # <<>>
    /\ model.training = FALSE
    /\ optim_steps = steps
    /\ steps > 0

\* ------------------------------------------------------------------------
\* SpecPass: the body of "for task in [...]" in train_func, for one epoch
\* and one task, with the values of tot_loss, preds and labels
\* ------------------------------------------------------------------------
\* the sum of two float values kept as fractions, and a float divided by a
\* positive integer
RatAdd(a, b) == Rat(a.num * b.den + b.num * a.den, a.den * b.den)
RatDivInt(a, k) == Rat(a.num, a.den * k)
RECURSIVE RatSum(_)
RatSum(s) == IF s = <<>> THEN Rat(0, 1) ELSE RatAdd(Head(s), RatSum(Tail(s)))

\* a training set of n rows of a task: the row's id, its label, and the
\* pooled feature x its input_ids give
PassRows(task, n) ==
    [i \in 1..n |-> [id |-> i, label |-> (i - 1) % Len(NamesOf(task)),
                     x |-> IF i % 3 = 0 THEN 3 ELSE 1]]
PassFeatures(batch) == [i \in 1..Len(batch) |-> batch[i].x]

\* the sizes of the training set: a batch that is not full, one full
\* batch, and the largest size
PassSizes == {BATCH_SIZE - 1, BATCH_SIZE, MaxPassRows}

\* the models the pass may start from and the optimizer may move to: the
\* encoder weight and the head of the task (the other head is not in the
\* graph of the task's loss)
PassModels(task, n) ==
    {[enc |-> e,
      heads |-> [t \in {"topic", "sentiment"} |->
                    IF t = task THEN h ELSE [n |-> n, w |-> 0, b |-> 0]],
      training |-> TRUE, topic_label_names |-> <<>>, sentiment_label_names |-> <<>>] :
        e \in {0, 1}, h \in HeadsOf(task, n)}

\* accuracy_score(y_true, y_pred)
AccuracyScore(y_true, y_pred) ==
    Rat(Cardinality({i \in 1..Len(y_true) : y_true[i] = y_pred[i]}), Len(y_true))

\* the pass is about to start: tot_loss, preds and labels hold nothing yet
\* (the first pass) or what the pass before left in them
InitPass ==
    /\ pass_pc = "start"
    /\ pass_epoch \in {0, EPOCHS - 1}
    /\ pass_task \in Range(Tasks)
    /\ \E n \in PassSizes :
           /\ pass_ds = PassRows(pass_task, n)
           /\ pass_model \in PassModels(pass_task, LenOfSet(TensorColumn(pass_ds)))
    /\ pass_order = <<>>
    /\ pass_bidx = 0
    /\ \/ tot_loss = Rat(0, 1) /\ train_preds = <<>> /\ train_labels = <<>>
       \/ tot_loss = Rat(3, 2) /\ train_preds = <<1, 0>> /\ train_labels = <<0, 1>>
    /\ logged = <<>>
    /\ pass_used = <<>>
    /\ FilterIdle /\ SplitIdle /\ PoolIdle /\ MainIdle

\* the pass with the mutation "the accumulators are set once, before the
\* epoch loop"
PassBeginNoReset ==
    /\ pass_pc = "start"
    /\ pass_order' \in ShuffleOrders(Len(pass_ds))
    /\ pass_bidx' = 0
    /\ pass_pc' = "loop"
    /\ UNCHANGED <<pass_epoch, pass_task, pass_ds, pass_model, tot_loss, train_preds,
                   train_labels, logged, pass_used, fvars, svars, pvars, mvars>>

\* loader = loaders[f"train_{task}"]; tot_loss, preds, labels = 0, [], [];
\* the loader starts a shuffled pass
PassBegin ==
    /\ pass_pc = "start"
    /\ tot_loss' = Rat(0, 1)
    /\ train_preds' = <<>>
    /\ train_labels' = <<>>
    /\ pass_order' \in ShuffleOrders(Len(pass_ds))
    /\ pass_bidx' = 0
    /\ pass_pc' = "loop"
    /\ UNCHANGED <<pass_epoch, pass_task, pass_ds, pass_model, logged, pass_used,
                   fvars, svars, pvars, mvars>>

\* the loop body for the next batch: forward, loss, backward, optimizer and
\* scheduler step (the model moves), then tot_loss, preds and labels take
\* the batch in; or the loop ends
PassBatch ==
    /\ pass_pc = "loop"
    /\ IF pass_bidx < NumBatches(pass_ds)
       THEN LET batch == BatchOf(pass_ds, pass_order, pass_bidx + 1)
                out == Forward(pass_model, pass_task, PassFeatures(batch))
                l == CrossEntropy(out.logits, LabelsOf(batch))
            IN  /\ pass_model' \in PassModels(pass_task, pass_model.heads[pass_task].n)
                /\ tot_loss' = RatAdd(tot_loss, l)
                /\ train_preds' = train_preds \o ArgmaxRows(out.logits)
                /\ train_labels' = train_labels \o LabelsOf(batch)
                /\ pass_used' = Append(pass_used, pass_model)
                /\ pass_bidx' = pass_bidx + 1
                /\ pass_pc' = "loop"
       ELSE /\ pass_pc' = "log"
            /\ UNCHANGED <<pass_model, tot_loss, train_preds, train_labels, pass_used,
                           pass_bidx>>
    /\ UNCHANGED <<pass_epoch, pass_task, pass_ds, pass_order, logged,
                   fvars, svars, pvars, mvars>>

\* mp.log(epoch, task, tot_loss/len(loader), macro_metrics(labels, preds)):
\* the row with its loss and accuracy columns
PassLog ==
    /\ pass_pc = "log"
    /\ logged' = Append(logged,
                        [epoch |-> pass_epoch, task |-> pass_task,
                         loss |-> RatDivInt(tot_loss, NumBatches(pass_ds)),
                         acc |-> AccuracyScore(train_labels, train_preds)])
    /\ pass_pc' = "logged"
    /\ UNCHANGED <<pass_epoch, pass_task, pass_ds, pass_order, pass_model, pass_bidx,
                   tot_loss, train_preds, train_labels, pass_used,
                   fvars, svars, pvars, mvars>>

NextPass == PassBegin \/ PassBatch \/ PassLog

SpecPass == InitPass /\ [][NextPass]_vars

\* the row the loader gave in place i of the pass, the batch it was in,
\* and what the model that batch was forwarded through predicts for it
PassRowAt(i) == pass_ds[pass_order[i]]
PassBatchOfPlace(i) == ((i - 1) \div BATCH_SIZE) + 1
PassPrediction(i) ==
    Argmax(Forward(pass_used[PassBatchOfPlace(i)], pass_task,
                   <<PassRowAt(i).x>>).logits[1])
\* the loss of the k-th batch of the pass, from the rows of that batch and
\* the model it was forwarded through
PassBatchLoss(k) ==
    LET batch == BatchOf(pass_ds, pass_order, k)
    IN  CrossEntropy(Forward(pass_used[k], pass_task, PassFeatures(batch)).logits,
                     LabelsOf(batch))
PassRowsSeen ==
    IF pass_bidx * BATCH_SIZE < Len(pass_ds) THEN pass_bidx * BATCH_SIZE ELSE Len(pass_ds)

\* C11: the metrics logged for an epoch and a task come from exactly the
\* batches of that task in that epoch: tot_loss, preds and labels are empty
\* when the pass starts its loop; preds and labels always have the same
\* length, the rows of the batches done so far; in place i labels holds
\* the label and preds the prediction of the i-th row the loader gave; at
\* the end of the pass that is every row of the training set; tot_loss is
\* the sum of the losses of the batches done, and the logged loss is that
\* sum divided by the number of batches.
C11_MetricsOfThePass ==
    pass_pc \in {"loop", "log", "logged"} =>
        /\ pass_bidx = 0 =>
               tot_loss = Rat(0, 1) /\ train_preds = <<>> /\ train_labels = <<>>
        /\ Len(train_preds) = Len(train_labels)
        /\ Len(train_labels) = PassRowsSeen
        /\ \A i \in 1..Len(train_labels) :
               /\ train_labels[i] = PassRowAt(i).label
               /\ train_preds[i] = PassPrediction(i)
        /\ Len(pass_used) = pass_bidx
        /\ tot_loss = RatSum([k \in 1..pass_bidx |-> PassBatchLoss(k)])
        /\ pass_pc \in {"log", "logged"} =>
               /\ pass_bidx = NumBatches(pass_ds)
               /\ Len(train_labels) = Len(pass_ds)
        /\ pass_pc = "logged" =>
               /\ Len(logged) = 1
               /\ logged[1].epoch = pass_epoch
               /\ logged[1].task = pass_task
               /\ logged[1].loss =
                      RatDivInt(RatSum([k \in 1..NumBatches(pass_ds) |-> PassBatchLoss(k)]),
                                NumBatches(pass_ds))

\* a pass of two batches has been logged: the model moved between the
\* batches, the predictions differ between rows, and the loss is not zero
C11_Witness ==
    /\ pass_pc = "logged"
    /\ NumBatches(pass_ds) = 2
    /\ pass_used[1] # pass_used[2]
    /\ \E i, j \in 1..Len(train_preds) : train_preds[i] # train_preds[j]
    /\ logged[1].loss.num > 0
    /\ pass_order[1] # 1

====
